---- MODULE Spec2Model ----
(***************************************************************************)
(* A model of lore_gen: the Generation Driver (src/generator.py), the      *)
(* Translation Driver (src/translator.py) and the LLM client they share    *)
(* (src/utils/api_client.py).                                              *)
(*                                                                         *)
(* Text is modelled by what the code can observe of it: whether it parses  *)
(* as JSON, what the parsed value is, how it is formatted and whether it   *)
(* carries surrounding whitespace.  File names are sequences of tokens,    *)
(* so that prefixes and suffixes are tested as the code tests them.        *)
(***************************************************************************)
EXTENDS Integers, Sequences, FiniteSets, TLC

VARIABLES
    files,          \* storage: path -> OutputFile
    now,            \* number of driver invocations started (the clock behind generated_at)
    pc,             \* position of the running driver
    run,            \* the arguments and settings of the running invocation
    li,             \* position in the language / locale loop (1-based)
    i,              \* position in the record loop (0-based, as enumerate gives it)
    acc,            \* language_results / translated_data["data"] of the current language
    results,        \* generate_data's results mapping
    source_data,    \* translate_file's loaded source file
    nOpen,          \* number of network sessions acquired and not released
    log,            \* what the running invocation has done so far
    status,         \* how the invocation ended: running, returned, raised
    prior,          \* normal-mode generate_data invocations that returned normally
    data_config,    \* the records load_data_config returns
    error,          \* the exception that left the driver, if one did
    prompt,         \* a call of fill_template_placeholders: its arguments and result
    client,         \* an LLMClient: its model, its session, the last payload it built
    call            \* a call of a helper of the drivers: its arguments and result

vars == <<files, now, pc, run, li, i, acc, results, source_data, nOpen, log,
          status, prior, data_config, error, prompt, client, call>>

----------------------------------------------------------------------------
(* Bounds of the model *)

MaxRecords == 2
MaxRuns == 2
MaxTemplateLen == 2
MaxModelLen == 3
MaxNameLen == 2
MaxFields == 2

----------------------------------------------------------------------------
(* Text and JSON *)

\* a JSON value that is not a string (null, true, a number), as a field's value
NullVal == "<null>"

NoFields == [x \in {} |-> ""]

Seq2Set(s) == {s[n] : n \in 1..Len(s)}

\* str.strip of a field's value
StripStr(s) == IF s = "  " THEN "" ELSE s

\* A text: kind says what json.loads makes of it ("notjson": JSONDecodeError),
\* obj holds an object's fields, elems an array's elements, fmt its layout,
\* pad whether whitespace surrounds it, tag tells texts that are not JSON apart.
MkText(kind, obj, elems, fmt, pad, tag) ==
    [kind |-> kind, obj |-> obj, elems |-> elems, fmt |-> fmt, pad |-> pad, tag |-> tag]

ObjText(obj, fmt, pad) == MkText("obj", obj, {}, fmt, pad, <<>>)
PlainText(tag) == MkText("notjson", NoFields, {}, "raw", FALSE, tag)

\* str.strip of a text
Strip(t) == [t EXCEPT !.pad = FALSE]

\* json.loads: the parsed value, without layout
IsJson(t) == t.kind # "notjson"
Loads(t) == [kind |-> t.kind, obj |-> t.obj, elems |-> t.elems]

\* json.dumps of a parsed value, in the given layout ("compact" or "indent2")
Dumps(v, fmt) == MkText(v.kind, v.obj, v.elems, fmt, FALSE, <<>>)

\* f"Error: {str(e)}"
ErrorText(msg) == PlainText(<<"Error: ", msg>>)

----------------------------------------------------------------------------
(* File names and paths: sequences of tokens *)

OutputDir == "data"

EndsWithJson(name) == Len(name) > 0 /\ name[Len(name)] = ".json"

get_output_filename_keep_suffix(language_code, base_filename) ==
    <<language_code, "_">> \o base_filename \o <<".json">>

get_output_filename(language_code, base_filename) ==
    LET base == IF EndsWithJson(base_filename)
                THEN SubSeq(base_filename, 1, Len(base_filename) - 1)
                ELSE base_filename
    IN  <<language_code, "_">> \o base \o <<".json">>

PathJoin(dir, filename) == <<dir, "/">> \o filename

check_file_exists_never(filepath) == FALSE

check_file_exists_unless_failed(filepath) ==
    /\ filepath \in DOMAIN files
    /\ \A j \in 1..Len(files[filepath].data) :
          LET tag == files[filepath].data[j].content.tag
          IN  IF Len(tag) = 0 THEN TRUE ELSE tag[1] # "Error: "

check_file_exists(filepath) == filepath \in DOMAIN files

----------------------------------------------------------------------------
(* Configuration the drivers read *)

\* config/languages.json, as Settings.load_languages returns it
LanguagesConfig ==
    [eng |-> [name |-> "English", locale |-> "en"],
     rus |-> [name |-> "Russian", locale |-> "ru"]]

\* list(languages_config.keys())
LanguageOrder == <<"eng", "rus">>

DelayBetweenRequests == 1

KeyNames == <<"aries", "taurus", "gemini", "cancer">>
ItemKeys == <<"item_0", "item_1", "item_2", "item_3">>

\* f'item_{i}'
ItemKey(n) == ItemKeys[(n % Len(ItemKeys)) + 1]

\* the records of a data file: a JSON object with a key, an object with a num
\* and no key, an object with neither, and a JSON value that is no object
RecKeyed(j) == [mapping |-> TRUE,
                fields |-> [key |-> KeyNames[((j - 1) % Len(KeyNames)) + 1], element |-> "fire"]]
NumNames == <<"house_1", "house_2", "house_3", "house_4">>
RecNum(j) ==
    [mapping |-> TRUE,
     fields |-> [num |-> NumNames[((j - 1) % Len(NumNames)) + 1], element |-> "fire"]]
RecBare == [mapping |-> TRUE, fields |-> [element |-> "fire"]]
RecString == [mapping |-> FALSE, fields |-> NoFields]

Patterns == {"keyed", "mixed", "broken"}

RecordOf(p, j, m) ==
    CASE p = "keyed" -> RecKeyed(j)
      [] p = "mixed" -> IF j % 2 = 1 THEN RecNum(j) ELSE RecBare
      [] OTHER -> IF j = m THEN RecString ELSE RecKeyed(j)

DataConfigs ==
    {[j \in 1..m |-> RecordOf(p, j, m)] : p \in Patterns, m \in 0..MaxRecords}

\* the languages argument of generate_data: None, or a list of codes
LanguageArgs ==
    {[none |-> TRUE, codes |-> <<>>],
     [none |-> FALSE, codes |-> <<"rus">>],
     [none |-> FALSE, codes |-> <<"zzz", "eng">>],
     [none |-> FALSE, codes |-> <<"eng", "eng">>]}

BaseNames == {<<"zodiacs">>, <<"zodiacs", ".json">>}

----------------------------------------------------------------------------
(* The LLM client *)

\* LLMClient.__aenter__: a session is acquired
SessionEnter(n) == n + 1

SessionExitLeak(n) == n

\* LLMClient.__aexit__: the session is closed
SessionExit(n) == n - 1

\* what the API answers to the prompt of record `key` in language `lang`
GoodResponse(key, lang) ==
    ObjText([title |-> key, one_liner |-> lang, body_md |-> "text"], "raw", TRUE)

HttpStatuses == {200, 500}

HttpResponse(key, lang, http_status) ==
    IF http_status = 200
    THEN [status |-> 200, content |-> GoodResponse(key, lang)]
    ELSE [status |-> http_status, content |-> PlainText(<<"server error">>)]

make_request_any_status(http) == [ok |-> TRUE, text |-> http.content, msg |-> <<>>]

\* LLMClient.make_request, from the HTTP response on: the content on 200, an
\* exception otherwise
make_request(http) ==
    IF http.status = 200
    THEN [ok |-> TRUE, text |-> http.content, msg |-> <<>>]
    ELSE [ok |-> FALSE, text |-> http.content,
          msg |-> <<"API request failed: ", http.status, " - ", http.content.tag>>]

----------------------------------------------------------------------------
(* The Generation Driver: UniversalGenerator.generate_data *)

NoMap == [x \in {} |-> <<>>]

\* no exception has left the driver
NoError == [type |-> "none", message |-> <<>>]

\* Exception(message), or a subclass of it
Raise(type, message) == [type |-> type, message |-> message]

\* no call of fill_template_placeholders, no LLMClient of its own
NoPrompt == [stage |-> "none"]
NoClient == [session |-> "absent"]

\* no helper is being called on its own
NoCall == [stage |-> "none"]

Ev(kind, pos, n, out) == [ev |-> kind, li |-> pos, i |-> n, out |-> out]
NoOut == [ok |-> TRUE, text |-> PlainText(<<>>), msg |-> <<>>]

Languages == IF run.languages.none THEN LanguageOrder ELSE run.languages.codes
LanguageCode == Languages[li]
OutputPath == PathJoin(OutputDir, get_output_filename(LanguageCode, run.base_filename))

\* data_item.get('key', f'item_{i}')
RecordKey(data_item, n) ==
    IF "key" \in DOMAIN data_item.fields THEN data_item.fields.key ELSE ItemKey(n)

DebugStubAnonymous(key, language_code) ==
    ObjText([debug |-> NullVal, key |-> "", language |-> language_code,
             prompt_shown |-> NullVal], "raw", FALSE)

\* the stub response of debug mode
DebugStub(key, language_code) ==
    ObjText([debug |-> NullVal, key |-> key, language |-> language_code,
             prompt_shown |-> NullVal], "raw", FALSE)

OnSuccessPrepend(results_so_far, key, response) ==
    <<[key |-> key, content |-> Strip(response)]>> \o results_so_far

\* language_results.append({"key": key, "content": response.strip()})
OnSuccess(results_so_far, key, response) ==
    Append(results_so_far, [key |-> key, content |-> Strip(response)])

OnFailureDrop(results_so_far, key, msg) == results_so_far

\* except Exception as e: language_results.append({... f"Error: {str(e)}"})
OnFailure(results_so_far, key, msg) ==
    Append(results_so_far, [key |-> key, content |-> ErrorText(msg)])

\* UniversalGenerator.save_results: the OutputFile written at output_path
save_results(language_results, language_code) ==
    [generated_at |-> now,
     language |-> language_code,
     total_items |-> Len(language_results),
     data |-> language_results]

WriteFile(path, content) == (path :> content) @@ files

WriteThenClose(debug_mode, pos, n) ==
    IF debug_mode
    THEN <<Ev("close", pos, n, NoOut)>>
    ELSE <<Ev("write", pos, n, NoOut), Ev("close", pos, n, NoOut)>>

\* what ends a language: the async with block is left, then save_results runs
\* unless debug mode is on
CloseThenWrite(debug_mode, pos, n) ==
    IF debug_mode
    THEN <<Ev("close", pos, n, NoOut)>>
    ELSE <<Ev("close", pos, n, NoOut), Ev("write", pos, n, NoOut)>>

RecordResultNowhere(mapping, language_code, output_path) == mapping

\* results[language_code] = output_path
RecordResult(mapping, language_code, output_path) ==
    (language_code :> output_path) @@ mapping

\* generate_data is called: the template, the data and the languages registry
\* are loaded (loaded = FALSE: one of them is missing or malformed)
GenStart(languages, base_filename, debug_mode, loaded) ==
    /\ pc = "idle"
    /\ now < MaxRuns
    /\ now' = now + 1
    /\ run' = [driver |-> "gen", languages |-> languages,
               base_filename |-> base_filename, debug_mode |-> debug_mode,
               loaded |-> loaded]
    /\ li' = 1 /\ i' = 0 /\ acc' = <<>> /\ results' = NoMap /\ log' = <<>>
    /\ IF loaded
       THEN pc' = "gen_lang" /\ status' = "running" /\ error' = NoError
       ELSE /\ pc' = "done" /\ status' = "raised"
            /\ error' = Raise("Exception", <<"input not loaded">>)
    /\ UNCHANGED <<files, source_data, nOpen, prior, data_config, prompt, client, call>>

\* a requested code that the registry does not have
GenUnknownLanguage ==
    /\ pc = "gen_lang" /\ li <= Len(Languages)
    /\ LanguageCode \notin DOMAIN LanguagesConfig
    /\ li' = li + 1
    /\ UNCHANGED <<files, now, pc, run, i, acc, results, source_data, nOpen, log,
                   status, prior, data_config,
                   error, prompt, client, call>>

\* the output file already exists: its path is the result
GenSkipLanguage ==
    /\ pc = "gen_lang" /\ li <= Len(Languages)
    /\ LanguageCode \in DOMAIN LanguagesConfig
    /\ check_file_exists(OutputPath)
    /\ results' = RecordResult(results, LanguageCode, OutputPath)
    /\ log' = Append(log, Ev("skip", li, 0, NoOut))
    /\ li' = li + 1
    /\ UNCHANGED <<files, now, pc, run, i, acc, source_data, nOpen, status, prior,
                   data_config,
                   error, prompt, client, call>>

\* async with LLMClient(...) as client: the language's session is acquired
GenBeginLanguage ==
    /\ pc = "gen_lang" /\ li <= Len(Languages)
    /\ LanguageCode \in DOMAIN LanguagesConfig
    /\ ~check_file_exists(OutputPath)
    /\ nOpen' = SessionEnter(nOpen)
    /\ acc' = <<>> /\ i' = 0
    /\ log' = Append(log, Ev("open", li, 0, NoOut))
    /\ pc' = "gen_item"
    /\ UNCHANGED <<files, now, run, li, results, source_data, status, prior,
                   data_config,
                   error, prompt, client, call>>

\* a record that is no mapping: data_item.get raises outside the try, the
\* session is released and generate_data raises
GenItemCrash ==
    /\ pc = "gen_item" /\ i < Len(data_config)
    /\ ~data_config[i + 1].mapping
    /\ nOpen' = SessionExit(nOpen)
    /\ log' = Append(log, Ev("close", li, i, NoOut))
    /\ pc' = "done" /\ status' = "raised"
    /\ error' = Raise("AttributeError", <<"'str' object has no attribute 'get'">>)
    /\ UNCHANGED <<files, now, run, li, i, acc, results, source_data, prior,
                   data_config, prompt, client, call>>

\* one record in debug mode: the stub, no request, no delay
GenItemDebug ==
    /\ pc = "gen_item" /\ i < Len(data_config)
    /\ data_config[i + 1].mapping
    /\ run.debug_mode
    /\ LET key == RecordKey(data_config[i + 1], i)
       IN  acc' = OnSuccess(acc, key, DebugStub(key, LanguageCode))
    /\ i' = i + 1
    /\ UNCHANGED <<files, now, pc, run, li, results, source_data, nOpen, log,
                   status, prior, data_config,
                   error, prompt, client, call>>

GenItemRequestRetrying(http_status) ==
    /\ pc = "gen_item" /\ i < Len(data_config)
    /\ data_config[i + 1].mapping
    /\ ~run.debug_mode
    /\ LET key == RecordKey(data_config[i + 1], i)
           out == make_request(HttpResponse(key, LanguageCode, http_status))
           req == Ev("request", li, i, out)
       IN  IF out.ok
           THEN /\ acc' = OnSuccess(acc, key, out.text)
                /\ log' = log \o <<req, Ev("sleep", li, i, NoOut)>>
                /\ i' = i + 1
           ELSE /\ log' = Append(log, req)
                /\ UNCHANGED <<acc, i>>
    /\ UNCHANGED <<files, now, pc, run, li, results, source_data, nOpen, status,
                   prior, data_config, error, prompt, client, call>>

\* one record in normal mode: the request, then the entry and the delay, or
\* the error entry
GenItemRequest(http_status) ==
    /\ pc = "gen_item" /\ i < Len(data_config)
    /\ data_config[i + 1].mapping
    /\ ~run.debug_mode
    /\ LET key == RecordKey(data_config[i + 1], i)
           out == make_request(HttpResponse(key, LanguageCode, http_status))
           req == Ev("request", li, i, out)
       IN  /\ IF out.ok
              THEN /\ acc' = OnSuccess(acc, key, out.text)
                   /\ log' = IF DelayBetweenRequests > 0
                             THEN log \o <<req, Ev("sleep", li, i, NoOut)>>
                             ELSE Append(log, req)
              ELSE /\ acc' = OnFailure(acc, key, out.msg)
                   /\ log' = Append(log, req)
    /\ i' = i + 1
    /\ UNCHANGED <<files, now, pc, run, li, results, source_data, nOpen, status,
                   prior, data_config,
                   error, prompt, client, call>>

\* the records are done: the session is released, the file is written
\* (normal mode only) and the path is the language's result
GenEndLanguage ==
    /\ pc = "gen_item" /\ i = Len(data_config)
    /\ nOpen' = SessionExit(nOpen)
    /\ files' = IF run.debug_mode
                THEN files
                ELSE WriteFile(OutputPath, save_results(acc, LanguageCode))
    /\ log' = log \o CloseThenWrite(run.debug_mode, li, i)
    /\ results' = RecordResult(results, LanguageCode, OutputPath)
    /\ li' = li + 1
    /\ pc' = "gen_lang"
    /\ UNCHANGED <<now, run, i, acc, source_data, status, prior, data_config,
                   error, prompt, client, call>>

GenReturnStuck ==
    /\ pc = "gen_lang" /\ li > Len(Languages)
    /\ UNCHANGED vars

\* return results
GenReturn ==
    /\ pc = "gen_lang" /\ li > Len(Languages)
    /\ pc' = "done" /\ status' = "returned"
    /\ UNCHANGED <<files, now, run, li, i, acc, results, source_data, nOpen, log,
                   prior, data_config,
                   error, prompt, client, call>>

----------------------------------------------------------------------------
(* The process ends: main prints the outcome and exits *)

Idle == [driver |-> "none"]

RunSummary == [languages |-> run.languages, base_filename |-> run.base_filename,
               results |-> results]

Exit ==
    /\ pc = "done"
    /\ pc' = "idle"
    /\ prior' = IF run.driver = "gen" /\ ~run.debug_mode /\ status = "returned"
                THEN prior \cup {RunSummary}
                ELSE prior
    /\ run' = Idle
    /\ li' = 1 /\ i' = 0 /\ acc' = <<>> /\ results' = NoMap /\ log' = <<>>
    /\ status' = "idle" /\ error' = NoError
    /\ UNCHANGED <<files, now, source_data, nOpen, data_config, prompt, client, call>>

----------------------------------------------------------------------------
(* The Generation Driver alone, from a storage that may hold an older file *)

OldFile == [generated_at |-> 0, language |-> "rus", total_items |-> 0, data |-> <<>>]

InitialStorages ==
    {NoMap, PathJoin(OutputDir, <<"rus", "_", "zodiacs", ".json">>) :> OldFile}

NoSource == [missing |-> TRUE]

Init ==
    /\ files \in InitialStorages
    /\ data_config \in DataConfigs
    /\ now = 0
    /\ pc = "idle"
    /\ run = Idle
    /\ li = 1 /\ i = 0 /\ acc = <<>> /\ results = NoMap /\ log = <<>>
    /\ source_data = NoSource
    /\ nOpen = 0
    /\ status = "idle"
    /\ prior = {}
    /\ error = NoError /\ prompt = NoPrompt /\ client = NoClient /\ call = NoCall

Next ==
    \/ \E languages \in LanguageArgs, base_filename \in BaseNames,
          debug_mode \in BOOLEAN, loaded \in BOOLEAN :
          GenStart(languages, base_filename, debug_mode, loaded)
    \/ GenUnknownLanguage
    \/ GenSkipLanguage
    \/ GenBeginLanguage
    \/ GenItemCrash
    \/ GenItemDebug
    \/ \E http_status \in HttpStatuses : GenItemRequest(http_status)
    \/ GenEndLanguage
    \/ GenReturn
    \/ Exit

Spec == Init /\ [][Next]_vars

----------------------------------------------------------------------------
(* The Translation Driver: DataTranslator.translate_file *)

DataDir == "data"

\* config/support_languages.json, and the order of its keys
SupportLanguages ==
    [eng |-> [name |-> "English"],
     spa |-> [name |-> "Spanish"],
     fra |-> [name |-> "French"]]

SupportOrder == <<"eng", "spa", "fra">>

RequiredFields == {"title", "one_liner", "body_md"}

\* `field in content` raises TypeError on a parsed value that is no container
NotContainer(v) == v.kind \notin {"obj", "array"}

\* [field for field in required_fields if field not in content]
MissingFields(v) ==
    IF v.kind = "obj"
    THEN {f \in RequiredFields : f \notin DOMAIN v.obj}
    ELSE {f \in RequiredFields : f \notin v.elems}

\* item.get("key", "unknown")
ItemKeyOf(item) == IF "key" \in DOMAIN item THEN item.key ELSE "unknown"

\* one pass of validate_source_file's loop over an item
ItemVerdictContentOnly(item) ==
    IF "content" \notin DOMAIN item THEN "invalid" ELSE "valid"

ItemVerdict(item) ==
    IF "content" \notin DOMAIN item THEN "invalid"
    ELSE IF ~IsJson(item.content) THEN "invalid"
    ELSE IF NotContainer(Loads(item.content)) THEN "TypeError"
    ELSE IF MissingFields(Loads(item.content)) # {} THEN "invalid"
    ELSE "valid"

\* DataTranslator.validate_source_file: "ok", or the exception it raises
validate_source_file(source) ==
    IF "data" \notin DOMAIN source THEN "ValueError"
    ELSE LET verdict == [j \in 1..Len(source.data) |-> ItemVerdict(source.data[j])]
         IN  IF \E j \in 1..Len(source.data) : verdict[j] = "TypeError" THEN "TypeError"
             ELSE IF \E j \in 1..Len(source.data) : verdict[j] = "invalid" THEN "ValueError"
             ELSE "ok"

validate_translated_content_lenient(text) ==
    IF IsJson(text) THEN "true" ELSE "false"

\* DataTranslator.validate_translated_content: "true", "false", or "raise" when
\* the check itself fails with an exception it does not catch
validate_translated_content(text) ==
    IF ~IsJson(text) THEN "false"
    ELSE LET v == Loads(text)
         IN  IF NotContainer(v) THEN "raise"
             ELSE IF MissingFields(v) # {} THEN "false"
             ELSE IF v.kind # "obj" THEN "raise"
             ELSE IF \E f \in RequiredFields : v.obj[f] = NullVal THEN "raise"
             ELSE IF \E f \in RequiredFields : StripStr(v.obj[f]) = "" THEN "false"
             ELSE "true"

StartsWithEng(name) == Len(name) >= 2 /\ name[1] = "eng" /\ name[2] = "_"

\* DataTranslator.get_target_filename
get_target_filename(source_filename, target_locale) ==
    LET base == IF StartsWithEng(source_filename)
                THEN SubSeq(source_filename, 3, Len(source_filename))
                ELSE source_filename
    IN  <<target_locale, "_">> \o base

file_exists_never(filename) == FALSE

\* DataTranslator.file_exists
file_exists(filename) == PathJoin(DataDir, filename) \in DOMAIN files

Locale == SupportOrder[li]
TargetFilename == get_target_filename(run.source_filename, Locale)
TargetPath == PathJoin(DataDir, TargetFilename)

\* source_data.get(name, default)
GetOr(source, name, default) == IF name \in DOMAIN source THEN source[name] ELSE default

DebugTranslationBlank(target_lang_name) ==
    PlainText(<<"[DEBUG] Translated to ", "", "">>)

\* the placeholder translate_content returns in debug mode
DebugTranslation(target_lang_name) ==
    PlainText(<<"[DEBUG] Translated to ", target_lang_name, "">>)

\* what the API can answer to a translation prompt
TranslationKinds == {"good", "truncated", "empty_title", "no_body", "null_title"}

TranslatedObject(v, target_lang_name, kind) ==
    LET full == [f \in RequiredFields |->
                    IF f = "one_liner" THEN target_lang_name
                    ELSE IF f \in DOMAIN v.obj THEN v.obj[f] ELSE "text"]
    IN  CASE kind = "empty_title" -> [full EXCEPT !["title"] = "  "]
          [] kind = "null_title" -> [full EXCEPT !["title"] = NullVal]
          [] kind = "no_body" -> [f \in RequiredFields \ {"body_md"} |-> full[f]]
          [] OTHER -> full

TranslationResponse(content_str, target_lang_name, kind) ==
    IF kind = "truncated"
    THEN PlainText(<<"truncated">>)
    ELSE ObjText(TranslatedObject(Loads(content_str), target_lang_name, kind), "raw", TRUE)

TranslationHttp(content_str, target_lang_name, http_status, kind) ==
    IF http_status = 200
    THEN [status |-> 200, content |-> TranslationResponse(content_str, target_lang_name, kind)]
    ELSE [status |-> http_status, content |-> PlainText(<<"server error">>)]

FallbackToTranslated(item, translated_content_str) ==
    [item EXCEPT !.content = translated_content_str]

\* translated_item['content'] = item['content']
Fallback(item, translated_content_str) == item

AcceptContentOnly(item, translated_content_str) ==
    [content |-> Dumps(Loads(translated_content_str), "compact")]

\* translated_item['content'] = json.dumps(json.loads(translated_content_str))
Accept(item, translated_content_str) ==
    [item EXCEPT !.content = Dumps(Loads(translated_content_str), "compact")]

\* translate_data_item after translate_content has returned
TranslatedItem(item, translated_content_str) ==
    IF validate_translated_content(translated_content_str) = "true"
    THEN Accept(item, translated_content_str)
    ELSE Fallback(item, translated_content_str)

\* the OutputFile translate_file builds and save_translated_file writes
translated_data(source, translated_items, target_locale) ==
    [generated_at |-> GetOr(source, "generated_at", 0),
     language |-> target_locale,
     total_items |-> GetOr(source, "total_items", 0),
     data |-> translated_items]

\* str(n) of a count
Digits == <<"0", "1", "2", "3", "4", "5">>
Str(n) == Digits[n + 1]

\* the (key, error) pairs validate_source_file collects, in order; nothing for
\* an item that passes
InvalidItems(source) ==
    LET Pair(item) ==
            CASE ItemVerdict(item) # "invalid" -> <<>>
              [] "content" \notin DOMAIN item ->
                    <<[key |-> ItemKeyOf(item), error |-> "Missing 'content' field"]>>
              [] ~IsJson(item.content) ->
                    <<[key |-> ItemKeyOf(item), error |-> "Invalid JSON"]>>
              [] OTHER ->
                    <<[key |-> ItemKeyOf(item), error |-> "Missing fields"]>>
        Collect[n \in 0..Len(source.data)] ==
            IF n = 0 THEN <<>> ELSE Collect[n - 1] \o Pair(source.data[n])
    IN  Collect[Len(source.data)]

\* the exception validate_source_file raises
validate_source_error(source) ==
    CASE validate_source_file(source) = "TypeError" ->
            Raise("TypeError", <<"argument of type is not iterable">>)
      [] "data" \notin DOMAIN source ->
            Raise("ValueError", <<"Source file missing 'data' field">>)
      [] OTHER ->
            Raise("ValueError",
                  <<"Source file has ", Str(Len(InvalidItems(source))), " invalid items">>)

\* the exception load_source_file raises: the file cannot be read, is not
\* there, or does not pass validation
load_source_error(path, loaded) ==
    IF ~loaded THEN Raise("Exception", <<"input not loaded">>)
    ELSE IF path \notin DOMAIN files
    THEN Raise("FileNotFoundError", <<"Source file ", path, " not found">>)
    ELSE validate_source_error(files[path])

\* translate_file is called: the registry is read, the source file is loaded
\* and validated
TrStart(source_filename, debug_mode, loaded) ==
    /\ pc = "idle"
    /\ now < MaxRuns
    /\ now' = now + 1
    /\ run' = [driver |-> "tr", source_filename |-> source_filename,
               debug_mode |-> debug_mode, loaded |-> loaded]
    /\ li' = 1 /\ i' = 0 /\ acc' = <<>> /\ results' = NoMap /\ log' = <<>>
    /\ LET path == PathJoin(DataDir, source_filename)
       IN  IF loaded /\ path \in DOMAIN files /\ validate_source_file(files[path]) = "ok"
           THEN /\ source_data' = files[path]
                /\ pc' = "tr_locale" /\ status' = "running" /\ error' = NoError
           ELSE /\ source_data' = NoSource
                /\ pc' = "done" /\ status' = "raised"
                /\ error' = load_source_error(path, loaded)
    /\ UNCHANGED <<files, nOpen, prior, data_config, prompt, client, call>>

\* the target file exists (normal mode): the locale is skipped
TrSkipLocale ==
    /\ pc = "tr_locale" /\ li <= Len(SupportOrder)
    /\ ~run.debug_mode /\ file_exists(TargetFilename)
    /\ log' = Append(log, Ev("skip", li, 0, NoOut))
    /\ li' = li + 1
    /\ UNCHANGED <<files, now, pc, run, i, acc, results, source_data, nOpen, status,
                   prior, data_config,
                   error, prompt, client, call>>

\* translated_data is created for the locale
TrBeginLocale ==
    /\ pc = "tr_locale" /\ li <= Len(SupportOrder)
    /\ ~(~run.debug_mode /\ file_exists(TargetFilename))
    /\ acc' = <<>> /\ i' = 0
    /\ log' = Append(log, Ev("begin", li, 0, NoOut))
    /\ pc' = "tr_item"
    /\ UNCHANGED <<files, now, run, li, results, source_data, nOpen, status, prior,
                   data_config,
                   error, prompt, client, call>>

\* translate_data_item in debug mode: the placeholder fails validation and the
\* item keeps its content
TrItemDebug ==
    /\ pc = "tr_item" /\ i < Len(source_data.data)
    /\ run.debug_mode
    /\ LET item == source_data.data[i + 1]
           returned == DebugTranslation(SupportLanguages[Locale].name)
       IN  /\ acc' = Append(acc, TranslatedItem(item, returned))
           /\ log' = Append(log, Ev("item", li, i, [NoOut EXCEPT !.text = returned]))
    /\ i' = i + 1
    /\ UNCHANGED <<files, now, pc, run, li, results, source_data, nOpen, status, prior,
                   data_config,
                   error, prompt, client, call>>

\* translate_data_item in normal mode, up to the request: translate_content
\* acquires a session of its own for the one request
TrItemOpen ==
    /\ pc = "tr_item" /\ i < Len(source_data.data)
    /\ ~run.debug_mode
    /\ nOpen' = SessionEnter(nOpen)
    /\ log' = log \o <<Ev("item", li, i, NoOut), Ev("open", li, i, NoOut)>>
    /\ pc' = "tr_request"
    /\ UNCHANGED <<files, now, run, li, i, acc, results, source_data, status, prior,
                   data_config,
                   error, prompt, client, call>>

\* the answer arrives: the session is released; a failed request and a failed
\* check propagate out of translate_file, otherwise the answer is validated,
\* the item is appended and the delay follows
TrItemRespond(http_status, kind) ==
    /\ pc = "tr_request"
    /\ LET item == source_data.data[i + 1]
           name == SupportLanguages[Locale].name
           content_str == Dumps(Loads(item.content), "indent2")
           out == make_request(TranslationHttp(content_str, name, http_status, kind))
           evs == <<Ev("request", li, i, out), Ev("close", li, i, NoOut)>>
       IN  /\ nOpen' = SessionExit(nOpen)
           /\ IF out.ok /\ validate_translated_content(Strip(out.text)) # "raise"
              THEN /\ acc' = Append(acc, TranslatedItem(item, Strip(out.text)))
                   /\ log' = IF DelayBetweenRequests > 0
                             THEN log \o evs \o <<Ev("sleep", li, i, NoOut)>>
                             ELSE log \o evs
                   /\ i' = i + 1
                   /\ pc' = "tr_item"
                   /\ UNCHANGED <<status, error>>
              ELSE /\ log' = log \o evs
                   /\ pc' = "done" /\ status' = "raised"
                   /\ error' = IF out.ok
                               THEN Raise("TypeError", <<"translated content">>)
                               ELSE Raise("Exception", out.msg)
                   /\ UNCHANGED <<acc, i>>
    /\ UNCHANGED <<files, now, run, li, results, source_data, prior, data_config,
                   prompt, client, call>>

TrSaveLocaleAlways ==
    /\ pc = "tr_item" /\ i = Len(source_data.data)
    /\ files' = WriteFile(TargetPath, translated_data(source_data, acc, Locale))
    /\ log' = Append(log, Ev("write", li, i, NoOut))
    /\ li' = li + 1
    /\ pc' = "tr_locale"
    /\ UNCHANGED <<now, run, i, acc, results, source_data, nOpen, status, prior,
                   data_config,
                   error, prompt, client, call>>

\* save_translated_file: written in normal mode only
TrSaveLocale ==
    /\ pc = "tr_item" /\ i = Len(source_data.data)
    /\ IF run.debug_mode
       THEN UNCHANGED <<files, log>>
       ELSE /\ files' = WriteFile(TargetPath, translated_data(source_data, acc, Locale))
            /\ log' = Append(log, Ev("write", li, i, NoOut))
    /\ li' = li + 1
    /\ pc' = "tr_locale"
    /\ UNCHANGED <<now, run, i, acc, results, source_data, nOpen, status, prior,
                   data_config,
                   error, prompt, client, call>>

TrReturn ==
    /\ pc = "tr_locale" /\ li > Len(SupportOrder)
    /\ pc' = "done" /\ status' = "returned"
    /\ UNCHANGED <<files, now, run, li, i, acc, results, source_data, nOpen, log,
                   prior, data_config,
                   error, prompt, client, call>>

----------------------------------------------------------------------------
(* The Translation Driver alone, from a storage that holds one source file *)

SourceName == <<"eng", "_", "planets", ".json">>
MissingName == <<"nosuch", ".json">>

GoodContent(key) ==
    ObjText([title |-> key, one_liner |-> "English", body_md |-> "text"], "raw", FALSE)

\* the items a source file may hold: as the Generation Driver writes them from
\* a good answer, and the ways an item can be wrong
ItemKinds == {"no_content", "error_marker", "no_title", "array", "number"}

GoodItem(j) ==
    IF j % 2 = 1
    THEN [key |-> KeyNames[((j - 1) % Len(KeyNames)) + 1], content |-> GoodContent(ItemKey(j))]
    ELSE [content |-> GoodContent(ItemKey(j)), note |-> "kept"]

BadItem(j, kind) ==
    CASE kind = "no_content" -> [key |-> ItemKey(j)]
      [] kind = "error_marker" ->
            [key |-> ItemKey(j), content |-> ErrorText(<<"API request failed: ">>)]
      [] kind = "no_title" ->
            [key |-> ItemKey(j),
             content |-> ObjText([one_liner |-> "English", body_md |-> "text"], "raw", FALSE)]
      [] kind = "array" ->
            [key |-> ItemKey(j), content |-> MkText("array", NoFields, {}, "raw", FALSE, <<>>)]
      [] OTHER ->
            [key |-> ItemKey(j), content |-> MkText("number", NoFields, {}, "raw", FALSE, <<>>)]

GoodItems(m) == [j \in 1..m |-> GoodItem(j)]

SourceItemLists ==
    {GoodItems(m) : m \in 0..MaxRecords}
    \cup {[GoodItems(m) EXCEPT ![p] = BadItem(p, kind)] :
            m \in 1..MaxRecords, p \in 1..MaxRecords, kind \in ItemKinds}

SourceFiles ==
    {[generated_at |-> 0, language |-> "eng", total_items |-> Len(d), data |-> d] :
        d \in SourceItemLists}
    \cup {[language |-> "eng", data |-> d] : d \in SourceItemLists}
    \cup {[generated_at |-> 0, language |-> "eng", total_items |-> 0]}

TrInit ==
    /\ files \in {PathJoin(DataDir, SourceName) :> f : f \in SourceFiles}
    /\ data_config = <<>>
    /\ now = 0
    /\ pc = "idle"
    /\ run = Idle
    /\ li = 1 /\ i = 0 /\ acc = <<>> /\ results = NoMap /\ log = <<>>
    /\ source_data = NoSource
    /\ nOpen = 0
    /\ status = "idle"
    /\ prior = {}
    /\ error = NoError /\ prompt = NoPrompt /\ client = NoClient /\ call = NoCall

TrNext ==
    \/ \E source_filename \in {SourceName, MissingName}, debug_mode \in BOOLEAN,
          loaded \in BOOLEAN :
          TrStart(source_filename, debug_mode, loaded)
    \/ TrSkipLocale
    \/ TrBeginLocale
    \/ TrItemDebug
    \/ TrItemOpen
    \/ \E http_status \in HttpStatuses, kind \in TranslationKinds :
          TrItemRespond(http_status, kind)
    \/ TrSaveLocale
    \/ TrReturn
    \/ Exit

TrSpec == TrInit /\ [][TrNext]_vars

----------------------------------------------------------------------------
(* Both drivers, one invocation at a time *)

\* a behaviour exercises one driver: the Translation Driver where the storage
\* holds the source file, the Generation Driver where it does not
HoldsSource == PathJoin(DataDir, SourceName) \in DOMAIN files

DriversInit == Init \/ TrInit

DriversNext ==
    \/ \E languages \in LanguageArgs, base_filename \in BaseNames,
          debug_mode \in BOOLEAN, loaded \in BOOLEAN :
          ~HoldsSource /\ GenStart(languages, base_filename, debug_mode, loaded)
    \/ GenUnknownLanguage
    \/ GenSkipLanguage
    \/ GenBeginLanguage
    \/ GenItemCrash
    \/ GenItemDebug
    \/ \E http_status \in HttpStatuses : GenItemRequest(http_status)
    \/ GenEndLanguage
    \/ GenReturn
    \/ \E source_filename \in {SourceName, MissingName}, debug_mode \in BOOLEAN,
          loaded \in BOOLEAN :
          HoldsSource /\ TrStart(source_filename, debug_mode, loaded)
    \/ TrSkipLocale
    \/ TrBeginLocale
    \/ TrItemDebug
    \/ TrItemOpen
    \/ \E http_status \in HttpStatuses, kind \in TranslationKinds :
          TrItemRespond(http_status, kind)
    \/ TrSaveLocale
    \/ TrReturn
    \/ Exit

DriversSpec == DriversInit /\ [][DriversNext]_vars

\* the answers to a translation request that differ in what the driver does
\* next: accepted, replaced by the original, fatal
LiveKinds == {"good", "truncated", "null_title"}

\* a step of a driver that has been called: the coroutine is resumed whenever
\* it can go on, and every request is answered in the end
DriverStep ==
    \/ GenUnknownLanguage
    \/ GenSkipLanguage
    \/ GenBeginLanguage
    \/ GenItemCrash
    \/ GenItemDebug
    \/ \E http_status \in HttpStatuses : GenItemRequest(http_status)
    \/ GenEndLanguage
    \/ GenReturn
    \/ TrSkipLocale
    \/ TrBeginLocale
    \/ TrItemDebug
    \/ TrItemOpen
    \/ \E http_status \in HttpStatuses, kind \in LiveKinds :
          TrItemRespond(http_status, kind)
    \/ TrSaveLocale
    \/ TrReturn

\* one invocation of either driver, from any of the storages
LiveNext ==
    \/ \E languages \in LanguageArgs, base_filename \in BaseNames,
          debug_mode \in BOOLEAN, loaded \in BOOLEAN :
          now = 0 /\ ~HoldsSource /\ GenStart(languages, base_filename, debug_mode, loaded)
    \/ \E source_filename \in {SourceName, MissingName}, debug_mode \in BOOLEAN,
          loaded \in BOOLEAN :
          now = 0 /\ HoldsSource /\ TrStart(source_filename, debug_mode, loaded)
    \/ DriverStep
    \/ Exit

LiveSpec == DriversInit /\ [][LiveNext]_vars /\ WF_vars(DriverStep)

----------------------------------------------------------------------------
(* The Template Filler: UniversalGenerator.fill_template_placeholders *)

\* A template, and a string value, is a sequence of pieces: literal text, a
\* placeholder {s}, or a placeholder {planet_s}.
Lit(s) == [ph |-> FALSE, planet |-> FALSE, s |-> s]
Ph(s) == [ph |-> TRUE, planet |-> FALSE, s |-> s]
PhPlanet(s) == [ph |-> TRUE, planet |-> TRUE, s |-> s]

\* str.replace(placeholder, value): every occurrence, left to right
Replace(text, placeholder, value) ==
    LET Done[n \in 0..Len(text)] ==
            IF n = 0 THEN <<>>
            ELSE Done[n - 1] \o (IF text[n] = placeholder THEN value ELSE <<text[n]>>)
    IN  Done[Len(text)]

\* the values of a record: a string, None, a mapping
StrValue(text) == [type |-> "str", text |-> text]
NoneValue == [type |-> "none"]
DictValue(entries) == [type |-> "dict", entries |-> entries]

\* what replaces a placeholder: "null" for None, str(value) otherwise
ValueText(value) ==
    CASE value.type = "str" -> value.text
      [] value.type = "none" -> <<Lit("null")>>
      [] OTHER -> <<Lit("{...}")>>

\* a record is its fields in the order data_item.items() yields them
Field(k, v) == [k |-> k, v |-> v]
FieldNames(data_item) == {data_item[n].k : n \in 1..Len(data_item)}
FieldValue(data_item, k) ==
    data_item[CHOOSE n \in 1..Len(data_item) : data_item[n].k = k].v

LanguageStepNewNamesOnly(text, lang_info) ==
    Replace(Replace(text, Ph("language_name"), <<Lit(lang_info.name)>>),
            Ph("locale_code"), <<Lit(lang_info.locale)>>)

\* the four replacements made from the language's registry entry
LanguageStep(text, lang_info) ==
    LET t1 == Replace(text, Ph("language_name"), <<Lit(lang_info.name)>>)
        t2 == Replace(t1, Ph("locale_code"), <<Lit(lang_info.locale)>>)
        t3 == Replace(t2, Ph("name"), <<Lit(lang_info.name)>>)
    IN  Replace(t3, Ph("locale"), <<Lit(lang_info.locale)>>)

\* the planet branch: {planet_name_localized} from names[language_code] when
\* it is there, then {planet_<key>} for every field but names, in order
PlanetStep(text, data_item, language_code) ==
    LET planet_names == FieldValue(data_item, "names").entries
        t0 == IF language_code \in DOMAIN planet_names
              THEN Replace(text, PhPlanet("name_localized"),
                           <<Lit(planet_names[language_code])>>)
              ELSE text
        Done[n \in 0..Len(data_item)] ==
            IF n = 0 THEN t0
            ELSE IF data_item[n].k = "names" THEN Done[n - 1]
            ELSE Replace(Done[n - 1], PhPlanet(data_item[n].k), ValueText(data_item[n].v))
    IN  Done[Len(data_item)]

\* the closing loop: {key} for every field, in order
FieldsStep(text, data_item) ==
    LET Done[n \in 0..Len(data_item)] ==
            IF n = 0 THEN text
            ELSE Replace(Done[n - 1], Ph(data_item[n].k), ValueText(data_item[n].v))
    IN  Done[Len(data_item)]

\* `if language_code:` - None and the empty string are false
Truthy(language_code) == language_code # ""

AfterLanguage(text, language_code) ==
    IF Truthy(language_code) /\ language_code \in DOMAIN LanguagesConfig
    THEN LanguageStep(text, LanguagesConfig[language_code])
    ELSE text

AfterPlanet(text, data_item, language_code) ==
    IF "names" \in FieldNames(data_item) /\ Truthy(language_code)
    THEN PlanetStep(text, data_item, language_code)
    ELSE text

fill_template_placeholders(template, data_item, language_code) ==
    FieldsStep(AfterPlanet(AfterLanguage(template, language_code), data_item,
                           language_code),
               data_item)

\* the call, in the three stages of the code
FillLanguage ==
    /\ prompt.stage = "called"
    /\ prompt' = [prompt EXCEPT !.stage = "language",
                                !.filled = AfterLanguage(@, prompt.language_code)]
    /\ UNCHANGED <<files, now, pc, run, li, i, acc, results, source_data, nOpen, log,
                   status, prior, data_config, error, client, call>>

FillPlanet ==
    /\ prompt.stage = "language"
    /\ prompt' = [prompt EXCEPT !.stage = "planet",
                                !.filled = AfterPlanet(@, prompt.data_item,
                                                       prompt.language_code)]
    /\ UNCHANGED <<files, now, pc, run, li, i, acc, results, source_data, nOpen, log,
                   status, prior, data_config, error, client, call>>

FillFields ==
    /\ prompt.stage = "planet"
    /\ prompt' = [prompt EXCEPT !.stage = "returned",
                                !.filled = FieldsStep(@, prompt.data_item)]
    /\ UNCHANGED <<files, now, pc, run, li, i, acc, results, source_data, nOpen, log,
                   status, prior, data_config, error, client, call>>

\* the pieces a template is made of here
TemplatePieces ==
    {Lit("Sign: "), Ph("key"), Ph("element"), Ph("name"), Ph("locale"),
     Ph("language_name"), Ph("locale_code"), Ph("names"), Ph("missing"),
     PhPlanet("name_localized"), PhPlanet("key")}

Templates ==
    UNION {[1..n -> TemplatePieces] : n \in 0..MaxTemplateLen}

\* records: plain fields; a value that quotes a later field, and one that
\* quotes an earlier field; fields called name and locale; a planet
FillRecords ==
    {<<>>,
     <<Field("key", StrValue(<<Lit("aries")>>)), Field("element", StrValue(<<Lit("fire")>>))>>,
     <<Field("key", StrValue(<<Ph("element")>>)), Field("element", StrValue(<<Lit("fire")>>))>>,
     <<Field("element", StrValue(<<Lit("fire")>>)), Field("key", StrValue(<<Ph("element")>>))>>,
     <<Field("name", StrValue(<<Lit("Mars")>>)), Field("locale", StrValue(<<Lit("xx")>>)),
       Field("element", NoneValue)>>,
     <<Field("names", DictValue([eng |-> "Sun"])), Field("key", StrValue(<<Lit("sun")>>)),
       Field("element", NoneValue)>>}

\* language_code: not given, a registered code, an unregistered one
FillLanguageCodes == {"", "eng", "zzz"}

\* no driver is running
NoDriver ==
    /\ files = NoMap /\ data_config = <<>>
    /\ now = 0 /\ pc = "idle" /\ run = Idle
    /\ li = 1 /\ i = 0 /\ acc = <<>> /\ results = NoMap /\ log = <<>>
    /\ source_data = NoSource /\ nOpen = 0
    /\ status = "idle" /\ prior = {} /\ error = NoError

FillInit ==
    /\ NoDriver
    /\ client = NoClient /\ call = NoCall
    /\ prompt \in {[stage |-> "called", template |-> t, data_item |-> d,
                    language_code |-> c, filled |-> t] :
                      t \in Templates, d \in FillRecords, c \in FillLanguageCodes}

FillNext ==
    \/ FillLanguage
    \/ FillPlanet
    \/ FillFields

FillSpec == FillInit /\ [][FillNext]_vars

----------------------------------------------------------------------------
(* The LLM client on its own: LLMClient.__aenter__, make_request, __aexit__ *)

\* A model identifier is a sequence of pieces; `marker in self.model` is the
\* search for the marker's pieces, contiguous, in it.
Contains(model, marker) ==
    \E at \in 0..(Len(model) - Len(marker)) :
        \A n \in 1..Len(marker) : model[at + n] = marker[n]

Gpt4o == <<"gpt-4", "o">>
Gpt5 == <<"gpt-5">>
Gpt5Mini == <<"gpt-5", "-mini">>

NewerGenerationGpt5Only(model) == Contains(model, Gpt5)

\* "gpt-4o" in self.model or "gpt-5" in self.model
NewerGeneration(model) == Contains(model, Gpt4o) \/ Contains(model, Gpt5)

\* payload.pop(name, None)
Pop(payload, name) == [k \in DOMAIN payload \ {name} |-> payload[k]]

\* the payload make_request builds
BuildPayload(model, prompt_text, temperature, max_tokens) ==
    LET payload == [model |-> model, messages |-> <<"user", prompt_text>>,
                    temperature |-> temperature]
    IN  IF NewerGeneration(model)
        THEN LET newer == ("max_completion_tokens" :> max_tokens) @@ payload
             IN  IF Contains(model, Gpt5Mini) THEN Pop(newer, "temperature") ELSE newer
        ELSE ("max_tokens" :> max_tokens) @@ payload

ModelPieces == {"gpt-4", "o", "gpt-5", "-mini", "-turbo"}
ModelIds == UNION {[1..n -> ModelPieces] : n \in 0..MaxModelLen}

\* temperature and max_tokens as the drivers pass them
Temperatures == {"0.7", "0.3"}
TokenLimits == {2000, 4000}

\* what the endpoint can answer: a status, the completions of a success body,
\* the text of an error body
ClientStatuses == {200, 201, 404, 500}

Completion(tag) == ObjText([title |-> tag, one_liner |-> "eng", body_md |-> "text"], "raw", TRUE)

ClientResponses ==
    {[status |-> http_status, choices |-> choices, body |-> PlainText(<<"server error">>)] :
        http_status \in ClientStatuses,
        choices \in {<<Completion("first")>>, <<Completion("first"), Completion("second")>>}}

NoResponse == [status |-> 0, choices |-> <<>>, body |-> PlainText(<<>>)]

\* data["choices"][0]["message"]["content"]
FirstCompletion(response) == response.choices[1]

\* the response as make_request reads it: the JSON body on 200, the text otherwise
ReadResponse(response) ==
    [status |-> response.status,
     content |-> IF response.status = 200 THEN FirstCompletion(response) ELSE response.body]

\* a client constructed and not yet entered
NewClient(model) ==
    [model |-> model, session |-> "none", payload |-> NoMap, raised |-> "none",
     out |-> NoOut, response |-> NoResponse]

\* async with: __aenter__ creates the session
ClientEnter ==
    /\ client.session = "none"
    /\ client' = [client EXCEPT !.session = "open"]
    /\ nOpen' = SessionEnter(nOpen)
    /\ UNCHANGED <<files, now, pc, run, li, i, acc, results, source_data, log,
                   status, prior, data_config, error, prompt, call>>

\* make_request: without a session it raises at once; otherwise the payload
\* is built and posted (a closed session refuses the post)
ClientMakeRequest(temperature, max_tokens, response) ==
    /\ client.session \in {"none", "open", "closed"}
    /\ IF client.session = "none"
       THEN client' = [client EXCEPT !.raised = "RuntimeError",
                          !.response = NoResponse,
                          !.out = [NoOut EXCEPT !.ok = FALSE,
                                     !.msg = <<"Client must be used as async context manager">>]]
       ELSE LET payload == BuildPayload(client.model, "prompt", temperature, max_tokens)
                out == make_request(ReadResponse(response))
            IN  IF client.session = "closed"
                THEN client' = [client EXCEPT !.payload = payload,
                                   !.raised = "RuntimeError",
                                   !.response = NoResponse,
                                   !.out = [NoOut EXCEPT !.ok = FALSE,
                                              !.msg = <<"Session is closed">>]]
                ELSE client' = [client EXCEPT !.payload = payload,
                                   !.raised = IF out.ok THEN "none" ELSE "Exception",
                                   !.response = response,
                                   !.out = out]
    /\ UNCHANGED <<files, now, pc, run, li, i, acc, results, source_data, nOpen, log,
                   status, prior, data_config, error, prompt, call>>

\* the block is left: __aexit__ closes the session
ClientExit ==
    /\ client.session = "open"
    /\ client' = [client EXCEPT !.session = "closed"]
    /\ nOpen' = SessionExit(nOpen)
    /\ UNCHANGED <<files, now, pc, run, li, i, acc, results, source_data, log,
                   status, prior, data_config, error, prompt, call>>

ClientInit ==
    /\ NoDriver
    /\ prompt = NoPrompt /\ call = NoCall
    /\ client \in {NewClient(model) : model \in ModelIds}

ClientNext ==
    \/ ClientEnter
    \/ \E temperature \in Temperatures, max_tokens \in TokenLimits,
          response \in ClientResponses :
          ClientMakeRequest(temperature, max_tokens, response)
    \/ ClientExit

ClientSpec == ClientInit /\ [][ClientNext]_vars

----------------------------------------------------------------------------
(* File names on their own: a generated file is named, then named again as the
   source of a translation *)

NamePieces == {"zodiacs", "planets", ".json", "eng", "_"}

\* base_filename as the caller gives it
NameBases == UNION {[1..n -> NamePieces] : n \in 1..MaxNameLen}

\* UniversalGenerator.get_output_filename is applied
NameOutput ==
    /\ call.stage = "given"
    /\ call' = [call EXCEPT !.stage = "output",
                            !.output_filename =
                                get_output_filename(call.language_code, call.base_filename)]
    /\ UNCHANGED <<files, now, pc, run, li, i, acc, results, source_data, nOpen, log,
                   status, prior, data_config, error, prompt, client>>

\* DataTranslator.get_target_filename is applied to the name of the generated file
NameTarget ==
    /\ call.stage = "output"
    /\ call' = [call EXCEPT !.stage = "target",
                            !.target_filename =
                                get_target_filename(call.output_filename, call.target_locale)]
    /\ UNCHANGED <<files, now, pc, run, li, i, acc, results, source_data, nOpen, log,
                   status, prior, data_config, error, prompt, client>>

NamesInit ==
    /\ NoDriver
    /\ prompt = NoPrompt /\ client = NoClient
    /\ call \in {[stage |-> "given", language_code |-> c, base_filename |-> b,
                  target_locale |-> t, output_filename |-> <<>>,
                  target_filename |-> <<>>] :
                    c \in DOMAIN LanguagesConfig, b \in NameBases,
                    t \in DOMAIN SupportLanguages}

NamesNext ==
    \/ NameOutput
    \/ NameTarget

NamesSpec == NamesInit /\ [][NamesNext]_vars

----------------------------------------------------------------------------
(* Loading the data file: UniversalGenerator.load_data_config *)

\* a JSON array, as a value
ListValue(items) == [type |-> "list", text |-> items]

\* the file at data_path: a JSON array, a JSON object (its fields in file
\* order), another JSON value, text that is not JSON, or no file
ArrayDoc(items) == [kind |-> "list", items |-> items, fields |-> <<>>]
ObjectDoc(fields) == [kind |-> "dict", items |-> <<>>, fields |-> fields]
OtherDoc(kind) == [kind |-> kind, items |-> <<>>, fields |-> <<>>]

Returned(value) == [ok |-> TRUE, value |-> value, error |-> NoError]
Failed(err) == [ok |-> FALSE, value |-> NoneValue, error |-> err]

\* for key, value in data.items(): if isinstance(value, list): return value
FirstList(fields) ==
    LET lists == {n \in 1..Len(fields) : fields[n].v.type = "list"}
    IN  IF lists = {}
        THEN Failed(Raise("ValueError", <<"Unsupported data structure in ", "data_path">>))
        ELSE Returned(fields[CHOOSE n \in lists : \A m \in lists : n <= m].v)

load_data_config(doc) ==
    CASE doc.kind = "missing" ->
            Failed(Raise("FileNotFoundError", <<"Data config file not found: ", "data_path">>))
      [] doc.kind = "notjson" ->
            Failed(Raise("ValueError", <<"Invalid JSON in data config: ", "data_path">>))
      [] doc.kind = "list" -> Returned(ListValue(doc.items))
      [] doc.kind = "dict" ->
            IF "planets" \in FieldNames(doc.fields)
            THEN Returned(FieldValue(doc.fields, "planets"))
            ELSE IF "data" \in FieldNames(doc.fields)
            THEN Returned(FieldValue(doc.fields, "data"))
            ELSE FirstList(doc.fields)
      [] OTHER ->
            Failed(Raise("ValueError", <<"Unsupported data structure in ", "data_path">>))

LoadDataConfig ==
    /\ call.stage = "given"
    /\ call' = [call EXCEPT !.stage = "loaded", !.result = load_data_config(call.doc)]
    /\ UNCHANGED <<files, now, pc, run, li, i, acc, results, source_data, nOpen, log,
                   status, prior, data_config, error, prompt, client>>

DocKeys == {"planets", "houses", "data", "meta"}
DocValues ==
    {ListValue(<<Lit("a")>>), ListValue(<<Lit("b")>>), StrValue(<<Lit("1.0")>>)}

\* objects of up to MaxFields fields with distinct names
DocFieldLists ==
    {fields \in UNION {[1..n -> {Field(k, v) : k \in DocKeys, v \in DocValues}] :
                          n \in 0..MaxFields} :
        \A a \in 1..Len(fields), b \in 1..Len(fields) :
            fields[a].k = fields[b].k => a = b}

DataDocs ==
    {ObjectDoc(fields) : fields \in DocFieldLists}
    \cup {ArrayDoc(<<>>), ArrayDoc(<<Lit("a")>>)}
    \cup {OtherDoc("string"), OtherDoc("notjson"), OtherDoc("missing")}

LoadInit ==
    /\ NoDriver
    /\ prompt = NoPrompt /\ client = NoClient
    /\ call \in {[stage |-> "given", doc |-> d, result |-> Failed(NoError)] : d \in DataDocs}

LoadNext == LoadDataConfig

LoadSpec == LoadInit /\ [][LoadNext]_vars

----------------------------------------------------------------------------
(* What the claims speak of *)

LogIdx == 1..Len(log)

IsGen == run.driver = "gen"
IsTr == run.driver = "tr"

\* the output path of the language at position pos of a generation run
GenPathAt(pos) ==
    PathJoin(OutputDir, get_output_filename(Languages[pos], run.base_filename))

\* the target path of the locale at position pos of a translation run
TargetPathAt(pos) ==
    PathJoin(DataDir, get_target_filename(run.source_filename, SupportOrder[pos]))

SourcePath == PathJoin(DataDir, run.source_filename)

\* the content an entry must hold for the outcome of its own request
Expected(out) == IF out.ok THEN Strip(out.text) ELSE ErrorText(out.msg)

\* entries holds one entry for each of the first n records of the language at
\* position pos, each with the outcome of that record's request
EntriesMatch(entries, pos, n) ==
    /\ Len(entries) = n
    /\ \A j \in 0..(n - 1) :
          \E k \in LogIdx :
             /\ log[k].ev = "request" /\ log[k].li = pos /\ log[k].i = j
             /\ entries[j + 1].content = Expected(log[k].out)

SameArguments(p) ==
    p.languages = run.languages /\ p.base_filename = run.base_filename

----------------------------------------------------------------------------
(* C1..C10 *)

\* C1: a normal-mode generate_data invocation whose arguments are those of an
\* earlier normal-mode invocation that returned normally issues no request,
\* acquires no session and writes no file, and (its inputs loading again)
\* returns the mapping the earlier invocation returned.
C1_IdempotentResumption ==
    (IsGen /\ ~run.debug_mode) =>
        \A p \in prior :
            SameArguments(p) =>
                /\ \A k \in LogIdx : log[k].ev \notin {"open", "request", "write"}
                /\ nOpen = 0
                /\ (pc = "done" /\ run.loaded) =>
                      (status = "returned" /\ results = p.results)

C1_Witness ==
    /\ IsGen /\ ~run.debug_mode /\ pc = "done" /\ status = "returned"
    /\ Len(data_config) > 0
    /\ DOMAIN results # {}
    /\ \E p \in prior : SameArguments(p) /\ results = p.results
    /\ \E k \in LogIdx : log[k].ev = "skip"

\* C2: in normal mode a language's results hold one entry per record processed,
\* the entry of a record whose request failed is "Error: <message>", every
\* other entry is the (stripped) response of its own record, the written file
\* holds an entry for every record, and a failed request never ends the run:
\* generate_data raises only when its inputs do not load or a record is no
\* mapping.
C2_FailureIsolation ==
    (IsGen /\ ~run.debug_mode) =>
        /\ pc = "gen_item" => EntriesMatch(acc, li, i)
        /\ \A k \in LogIdx :
              log[k].ev = "write" =>
                 /\ GenPathAt(log[k].li) \in DOMAIN files
                 /\ EntriesMatch(files[GenPathAt(log[k].li)].data, log[k].li,
                                 Len(data_config))
        /\ status = "raised" =>
              \/ ~run.loaded
              \/ i < Len(data_config) /\ ~data_config[i + 1].mapping

C2_Witness ==
    /\ IsGen /\ ~run.debug_mode /\ pc = "done" /\ status = "returned"
    /\ \E k \in LogIdx :
          /\ log[k].ev = "write"
          /\ LET data == files[GenPathAt(log[k].li)].data
             IN  /\ Len(data) = MaxRecords
                 /\ \E r \in LogIdx :
                       /\ log[r].ev = "request" /\ log[r].li = log[k].li /\ ~log[r].out.ok
                       /\ data[log[r].i + 1].content = ErrorText(log[r].out.msg)
                 /\ \E r \in LogIdx :
                       /\ log[r].ev = "request" /\ log[r].li = log[k].li /\ log[r].out.ok
                       /\ data[log[r].i + 1].content = Strip(log[r].out.text)

\* C3: no step of the Generation Driver changes or removes a file that exists.
C3_NeverOverwritten ==
    [][\A p \in DOMAIN files : p \in DOMAIN files' /\ files'[p] = files[p]]_vars

C3_Witness ==
    /\ IsGen /\ pc = "done"
    /\ \E k \in LogIdx :
          /\ log[k].ev = "skip"
          /\ files[GenPathAt(log[k].li)].generated_at >= 1
          /\ files[GenPathAt(log[k].li)].generated_at < now

\* C4: when generate_data reaches a registered language whose output file
\* exists, the step it takes acquires no session, issues no request, writes
\* nothing, records the path as the language's result and moves on to the
\* next language.
C4_ExistingFileNoNetwork ==
    [][(/\ pc = "gen_lang" /\ li <= Len(Languages)
        /\ LanguageCode \in DOMAIN LanguagesConfig
        /\ OutputPath \in DOMAIN files)
       => /\ nOpen' = 0 /\ nOpen = 0
          /\ log' = Append(log, Ev("skip", li, 0, NoOut))
          /\ files' = files
          /\ LanguageCode \in DOMAIN results'
          /\ results'[LanguageCode] = OutputPath
          /\ pc' = "gen_lang" /\ li' = li + 1]_vars

C4_Witness ==
    /\ IsGen /\ ~run.debug_mode
    /\ \E k \in LogIdx :
          /\ log[k].ev = "skip"
          /\ results[Languages[log[k].li]] = GenPathAt(log[k].li)
          /\ \A r \in LogIdx : log[r].li = log[k].li => r = k
    /\ \E k \in LogIdx : log[k].ev = "request"

\* C5: when a record of the source file has no content, or content that is
\* not JSON, or parsed content without title, one_liner or body_md,
\* translate_file raises before any locale is begun, any session acquired,
\* any request issued and any file written.
Lacks(t, f) ==
    /\ ~(t.kind = "obj" /\ f \in DOMAIN t.obj)
    /\ ~(t.kind = "array" /\ f \in t.elems)

OffendingItem(item) ==
    \/ "content" \notin DOMAIN item
    \/ item.content.kind = "notjson"
    \/ \E f \in {"title", "one_liner", "body_md"} : Lacks(item.content, f)

SourceOffends ==
    /\ SourcePath \in DOMAIN files
    /\ "data" \in DOMAIN files[SourcePath]
    /\ \E j \in 1..Len(files[SourcePath].data) : OffendingItem(files[SourcePath].data[j])

C5_SourceValidationGate ==
    (IsTr /\ SourceOffends) =>
        /\ pc = "done" /\ status = "raised"
        /\ log = <<>> /\ li = 1 /\ acc = <<>> /\ nOpen = 0
        /\ DOMAIN files = {SourcePath}

C5_Witness ==
    /\ IsTr /\ run.loaded /\ ~run.debug_mode /\ pc = "done" /\ status = "raised"
    /\ SourcePath \in DOMAIN files
    /\ Len(files[SourcePath].data) = MaxRecords
    /\ "content" \notin DOMAIN files[SourcePath].data[MaxRecords]
    /\ ~OffendingItem(files[SourcePath].data[1])

\* C6: when the text returned for a record is not JSON, or lacks a required
\* field, or has a required field that is empty after trimming, the item kept
\* for the record, and the record's content in the locale's file once it is
\* written, is the source record's content unchanged.
InvalidTranslation(t) ==
    \/ t.kind = "notjson"
    \/ /\ t.kind = "obj"
       /\ \E f \in {"title", "one_liner", "body_md"} :
             \/ f \notin DOMAIN t.obj
             \/ t.obj[f] # NullVal /\ StripStr(t.obj[f]) = ""

C6_TranslationFallback ==
    IsTr =>
        \A k \in LogIdx :
            (log[k].ev = "request" /\ log[k].out.ok /\ InvalidTranslation(log[k].out.text)) =>
                LET pos == log[k].li
                    j == log[k].i + 1
                    original == files[SourcePath].data[j].content
                IN  /\ (pos = li /\ pc \in {"tr_item", "tr_request"} /\ j <= Len(acc)) =>
                          acc[j].content = original
                    /\ \A w \in LogIdx :
                          (log[w].ev = "write" /\ log[w].li = pos) =>
                              files[TargetPathAt(pos)].data[j].content = original

C6_Witness ==
    /\ IsTr /\ pc = "done" /\ status = "returned"
    /\ \E k \in LogIdx, w \in LogIdx :
          /\ log[k].ev = "request" /\ log[k].out.ok
          /\ log[k].out.text.kind = "obj" /\ log[k].out.text.obj["title"] = "  "
          /\ log[w].ev = "write" /\ log[w].li = log[k].li
          /\ files[TargetPathAt(log[k].li)].data[log[k].i + 1].content
                = files[SourcePath].data[log[k].i + 1].content
          /\ \E g \in LogIdx :
                /\ log[g].ev = "request" /\ log[g].li = log[k].li
                /\ files[TargetPathAt(log[k].li)].data[log[g].i + 1].content.fmt = "compact"

\* C7: in normal mode a failed request for one record does not make
\* translate_file raise.
C7_RequestFailureRecoverable ==
    (IsTr /\ ~run.debug_mode /\ \E k \in LogIdx : log[k].ev = "request" /\ ~log[k].out.ok)
        => status # "raised"

\* C8: every file a driver has written in the running invocation has as many
\* data entries as its total_items says.
WrittenPathAt(pos) == IF IsGen THEN GenPathAt(pos) ELSE TargetPathAt(pos)

C8_DataLengthIsTotalItems ==
    \A k \in LogIdx :
        log[k].ev = "write" =>
            Len(files[WrittenPathAt(log[k].li)].data)
                = files[WrittenPathAt(log[k].li)].total_items

\* C9: at most one session is open at any moment, the sessions open are those
\* acquired and not yet released, and none is open outside the block that
\* acquired it: not between languages or records, and not once the driver has
\* returned or raised.
Count(kind) == Cardinality({k \in LogIdx : log[k].ev = kind})

C9_SessionsReleased ==
    /\ nOpen \in {0, 1}
    /\ pc \notin {"gen_item", "tr_request"} => nOpen = 0
    /\ Count("open") - Count("close") = nOpen

C9_Witness ==
    /\ pc = "done" /\ status = "raised" /\ nOpen = 0
    /\ \E k \in LogIdx : log[k].ev = "open"

\* C10: in generate_data each language begun has one session: it is acquired
\* once, every request of the language happens after it is acquired and before
\* it is released, it is released before the language's file is written and
\* before anything is done for another language, and a language that is
\* finished and was not skipped has acquired and released exactly one.
C10_OneSessionPerLanguage ==
    IsGen =>
        /\ \A a, b \in LogIdx :
              (log[a].ev = log[b].ev /\ log[a].ev \in {"open", "close"}
                  /\ log[a].li = log[b].li) => a = b
        /\ \A k \in LogIdx :
              log[k].ev = "request" =>
                 /\ \E a \in 1..(k - 1) : log[a].ev = "open" /\ log[a].li = log[k].li
                 /\ \A c \in 1..(k - 1) : ~(log[c].ev = "close" /\ log[c].li = log[k].li)
        /\ \A k \in LogIdx :
              log[k].ev = "write" =>
                 \E c \in 1..(k - 1) : log[c].ev = "close" /\ log[c].li = log[k].li
        /\ \A a, b \in LogIdx :
              (log[a].ev = "open" /\ a < b /\ log[b].li # log[a].li) =>
                 \E c \in (a + 1)..(b - 1) : log[c].ev = "close" /\ log[c].li = log[a].li
        /\ \A pos \in 1..(li - 1) :
              (/\ pos <= Len(Languages)
               /\ Languages[pos] \in DOMAIN LanguagesConfig
               /\ \A k \in LogIdx : ~(log[k].ev = "skip" /\ log[k].li = pos))
              => /\ \E a \in LogIdx : log[a].ev = "open" /\ log[a].li = pos
                 /\ \E c \in LogIdx : log[c].ev = "close" /\ log[c].li = pos
        /\ (pc = "gen_item") <=> (nOpen = 1)

C10_Witness ==
    /\ IsGen /\ ~run.debug_mode /\ pc = "done" /\ status = "returned"
    /\ \E a, b \in LogIdx :
          /\ log[a].ev = "open" /\ log[b].ev = "open" /\ log[a].li # log[b].li
    /\ Cardinality({k \in LogIdx : log[k].ev = "request"}) = 2 * MaxRecords
    /\ Cardinality({k \in LogIdx : log[k].ev = "write"}) = 2

----------------------------------------------------------------------------
(* C11..C20 *)

\* C11: in debug mode generate_data issues no request, performs no pacing
\* delay and writes no file, whatever the language and the record, and the
\* entry of every record processed holds the stub built from the record's key
\* and the language code.
StubFor(data_item, n, language_code) ==
    MkText("obj",
           [debug |-> NullVal,
            key |-> IF "key" \in DOMAIN data_item.fields
                    THEN data_item.fields.key ELSE ItemKeys[n + 1],
            language |-> language_code,
            prompt_shown |-> NullVal],
           {}, "raw", FALSE, <<>>)

C11_DebugGenerationIsDry ==
    /\ [](  (IsGen /\ run.debug_mode) =>
              /\ \A k \in LogIdx : log[k].ev \notin {"request", "sleep", "write"}
              /\ pc = "gen_item" =>
                    /\ Len(acc) = i
                    /\ \A j \in 1..Len(acc) :
                          acc[j].content = StubFor(data_config[j], j - 1, Languages[li]))
    /\ [][(IsGen /\ run.debug_mode) => files' = files]_vars

C11_Witness ==
    /\ IsGen /\ run.debug_mode /\ pc = "gen_item" /\ li > 1
    /\ i = MaxRecords /\ Len(acc) = MaxRecords
    /\ \E j \in 1..Len(data_config) : "key" \notin DOMAIN data_config[j].fields
    /\ \E k \in LogIdx : log[k].ev = "close"

\* C12: in normal mode with a positive delay, every request that is followed
\* by another record of the same language, whether it succeeded or failed, is
\* followed by the pacing delay before that next record's request.
C12_PacingAfterEveryRequest ==
    (IsGen /\ ~run.debug_mode /\ DelayBetweenRequests > 0) =>
        \A k \in LogIdx, n \in LogIdx :
            (/\ log[k].ev = "request" /\ log[n].ev = "request"
             /\ log[n].li = log[k].li /\ log[n].i = log[k].i + 1)
            => \E d \in (k + 1)..(n - 1) :
                  log[d].ev = "sleep" /\ log[d].li = log[k].li /\ log[d].i = log[k].i

\* C13: the mapping generate_data returns has exactly the requested codes the
\* registry knows, each mapped to {output_dir}/{code}_{base name}.json, whether
\* the language was skipped, run dry or written; for a requested code the
\* registry does not know nothing is done: no session, no request, no file.
ExpectedPath(code) == <<"data", "/", code, "_", "zodiacs", ".json">>

C13_ResultMapping ==
    (IsGen /\ pc = "done" /\ status = "returned") =>
        /\ DOMAIN results =
              {Languages[pos] : pos \in 1..Len(Languages)} \cap DOMAIN LanguagesConfig
        /\ \A code \in DOMAIN results : results[code] = ExpectedPath(code)
        /\ \A pos \in 1..Len(Languages) :
              Languages[pos] \notin DOMAIN LanguagesConfig =>
                 /\ \A k \in LogIdx : log[k].li # pos
                 /\ \A path \in DOMAIN files : path[3] # Languages[pos]

C13_Witness ==
    /\ IsGen /\ pc = "done" /\ status = "returned"
    /\ run.languages.codes = <<"zzz", "eng">>
    /\ run.base_filename = <<"zodiacs", ".json">>
    /\ results = ("eng" :> ExpectedPath("eng"))
    /\ \E k \in LogIdx : log[k].ev = "write"

\* C14: when translate_file reaches a locale whose target file exists, in
\* debug mode as in normal mode, the step it takes moves on to the next locale:
\* no record of the locale is processed and no file is written.
C14_ExistingTargetSkipped ==
    [][(/\ pc = "tr_locale" /\ li <= Len(SupportOrder)
        /\ TargetPath \in DOMAIN files)
       => /\ pc' = "tr_locale" /\ li' = li + 1
          /\ files' = files
          /\ log' = Append(log, Ev("skip", li, 0, NoOut))]_vars

\* C15: in debug mode translate_file acquires no session, issues no request,
\* performs no delay and writes no file; for every locale it processes it
\* visits every source record once, in order, and each translation call
\* returns "[DEBUG] Translated to <language name>".
Visits(pos, j) ==
    Cardinality({k \in LogIdx : log[k].ev = "item" /\ log[k].li = pos /\ log[k].i = j})

C15_DebugTranslationIsDry ==
    /\ [](  (IsTr /\ run.debug_mode) =>
              /\ nOpen = 0
              /\ \A k \in LogIdx : log[k].ev \in {"begin", "item"}
              /\ \A k \in LogIdx :
                    log[k].ev = "item" =>
                       log[k].out.text =
                          MkText("notjson", NoFields, {}, "raw", FALSE,
                                 <<"[DEBUG] Translated to ",
                                   SupportLanguages[SupportOrder[log[k].li]].name, "">>)
              /\ \A k \in LogIdx :
                    log[k].ev = "begin" =>
                       LET pos == log[k].li
                           n == Len(files[SourcePath].data)
                       IN  \A j \in 0..(n - 1) :
                              Visits(pos, j) = IF pos < li \/ j < i THEN 1 ELSE 0)
    /\ [][(IsTr /\ run.debug_mode) => files' = files]_vars

C15_Witness ==
    /\ IsTr /\ run.debug_mode /\ pc = "done" /\ status = "returned"
    /\ Len(files[SourcePath].data) = MaxRecords
    /\ Cardinality({k \in LogIdx : log[k].ev = "begin"}) = Len(SupportOrder)
    /\ Cardinality({k \in LogIdx : log[k].ev = "item"}) = Len(SupportOrder) * MaxRecords

\* C16: when the source file does not pass validation, the error
\* translate_file raises names the key of every offending record.
C16_ErrorListsOffendingKeys ==
    (IsTr /\ run.loaded /\ pc = "done" /\ status = "raised" /\ SourceOffends) =>
        \A j \in 1..Len(files[SourcePath].data) :
            LET item == files[SourcePath].data[j]
            IN  (OffendingItem(item) /\ "key" \in DOMAIN item) =>
                    item.key \in Seq2Set(error.message)

\* C17: every file translate_file has written for a locale has that locale as
\* its language and one record per source record, in source order, each with
\* the fields of the source record and, content apart, their values.
C17_TranslatedFileFrame ==
    IsTr =>
        \A k \in LogIdx :
            log[k].ev = "write" =>
                LET written == files[TargetPathAt(log[k].li)]
                    src == files[SourcePath].data
                IN  /\ written.language = SupportOrder[log[k].li]
                    /\ Len(written.data) = Len(src)
                    /\ \A j \in 1..Len(src) :
                          /\ DOMAIN written.data[j] = DOMAIN src[j]
                          /\ \A f \in DOMAIN src[j] \ {"content"} :
                                written.data[j][f] = src[j][f]

C17_Witness ==
    /\ IsTr /\ pc = "done" /\ status = "returned"
    /\ \E k \in LogIdx :
          /\ log[k].ev = "write" /\ SupportOrder[log[k].li] = "fra"
          /\ LET written == files[TargetPathAt(log[k].li)]
                 src == files[SourcePath].data
             IN  /\ written.language = "fra"
                 /\ Len(written.data) = MaxRecords
                 /\ \E j \in 1..Len(src) :
                       /\ "note" \in DOMAIN written.data[j]
                       /\ written.data[j].content # src[j].content
                 /\ \E j \in 1..Len(src) :
                       /\ "key" \in DOMAIN written.data[j]
                       /\ written.data[j].content # src[j].content

\* C18: when every placeholder of the template names a field of the record,
\* the filled template holds no {k} for a field k of the record, also when
\* the value of a field holds {k'} for another field k'.
C18_NoFieldPlaceholderRemains ==
    (/\ prompt.stage = "returned"
     /\ \A n \in 1..Len(prompt.template) :
           prompt.template[n].ph =>
              /\ ~prompt.template[n].planet
              /\ prompt.template[n].s \in FieldNames(prompt.data_item))
    => \A n \in 1..Len(prompt.filled) :
          ~(/\ prompt.filled[n].ph /\ ~prompt.filled[n].planet
            /\ prompt.filled[n].s \in FieldNames(prompt.data_item))

\* C19: with a registered language given, every {language_name} and {name} of
\* the template becomes the language's name and every {locale_code} and
\* {locale} its locale, also for a record that has a name or locale field of
\* its own (whose values then appear nowhere in place of them).
Occurrences(text, piece) == Cardinality({n \in 1..Len(text) : text[n] = piece})

C19_LanguageBeforeRecord ==
    (prompt.stage = "returned" /\ prompt.language_code \in {"eng", "rus"}) =>
        LET name == IF prompt.language_code = "eng" THEN "English" ELSE "Russian"
            locale == IF prompt.language_code = "eng" THEN "en" ELSE "ru"
        IN  /\ Occurrences(prompt.filled, Lit(name))
                  = Occurrences(prompt.template, Ph("language_name"))
                    + Occurrences(prompt.template, Ph("name"))
            /\ Occurrences(prompt.filled, Lit(locale))
                  = Occurrences(prompt.template, Ph("locale_code"))
                    + Occurrences(prompt.template, Ph("locale"))
            /\ \A n \in 1..Len(prompt.filled) :
                  prompt.filled[n] \notin {Ph("name"), Ph("locale"), Ph("language_name"),
                                          Ph("locale_code"), Lit("Mars"), Lit("xx")}

C19_Witness ==
    /\ prompt.stage = "returned" /\ prompt.language_code = "eng"
    /\ "name" \in FieldNames(prompt.data_item)
    /\ "locale" \in FieldNames(prompt.data_item)
    /\ prompt.template = <<Ph("name"), Ph("locale")>>
    /\ prompt.filled = <<Lit("English"), Lit("en")>>

\* C20: every payload make_request builds has exactly one of max_tokens and
\* max_completion_tokens; it has max_completion_tokens exactly when the model
\* identifier contains "gpt-4o" or "gpt-5"; it lacks temperature exactly when
\* the identifier contains "gpt-5-mini"; so every other model gets max_tokens
\* and temperature.
Has(name) == name \in DOMAIN client.payload

C20_PayloadShape ==
    (client.session # "absent" /\ DOMAIN client.payload # {}) =>
        /\ Has("max_tokens") # Has("max_completion_tokens")
        /\ Has("max_completion_tokens") <=>
              (Contains(client.model, <<"gpt-4", "o">>) \/ Contains(client.model, <<"gpt-5">>))
        /\ ~Has("temperature") <=> Contains(client.model, <<"gpt-5", "-mini">>)
        /\ {"model", "messages"} \subseteq DOMAIN client.payload

C20_Witness ==
    /\ client.session = "open"
    /\ client.model = <<"gpt-5", "-mini">>
    /\ DOMAIN client.payload = {"model", "messages", "max_completion_tokens"}
    /\ client.raised = "none"

----------------------------------------------------------------------------
(* C21..C30 *)

\* C21: a request made on an open session returns a value exactly when the
\* status of the response is 200, and the value is then the content of the
\* first completion; on any other status it raises an error that carries the
\* status and the body of the response.
C21_ReturnsOnlyOn200 ==
    (client.session # "absent" /\ client.response # NoResponse) =>
        /\ client.raised = "none" <=> client.response.status = 200
        /\ client.out.ok <=> client.response.status = 200
        /\ client.response.status = 200 =>
              client.out.text = client.response.choices[1]
        /\ client.response.status # 200 =>
              /\ client.raised = "Exception"
              /\ client.out.msg = <<"API request failed: ", client.response.status,
                                    " - ", client.response.body.tag>>

C21_Witness ==
    /\ client.session = "open" /\ client.response.status = 201
    /\ client.raised = "Exception" /\ ~client.out.ok
    /\ Len(client.response.choices) = 2

\* C22: within a run no (language or locale, record) pair is requested twice,
\* whatever the outcome of its request; in normal mode the Generation Driver
\* has requested every record it has passed, and every record of a language
\* it has written, once.
RequestsFor(pos, n) ==
    Cardinality({k \in LogIdx : log[k].ev = "request" /\ log[k].li = pos /\ log[k].i = n})

C22_NoRetries ==
    /\ \A k \in LogIdx : log[k].ev = "request" => RequestsFor(log[k].li, log[k].i) = 1
    /\ (IsGen /\ ~run.debug_mode) =>
          /\ pc = "gen_item" => \A n \in 0..(i - 1) : RequestsFor(li, n) = 1
          /\ \A k \in LogIdx :
                log[k].ev = "write" =>
                   \A n \in 0..(Len(data_config) - 1) : RequestsFor(log[k].li, n) = 1

C22_Witness ==
    /\ IsGen /\ ~run.debug_mode /\ pc = "gen_item" /\ i = MaxRecords
    /\ \E k \in LogIdx : log[k].ev = "request" /\ log[k].li = li /\ ~log[k].out.ok
    /\ \A n \in 0..(MaxRecords - 1) : RequestsFor(li, n) = 1

\* C23: the key of the entry of a record is the record's key field when it
\* has one, else its num field when it has one, else item_<index>.
IdentifyingKey(data_item, n) ==
    IF "key" \in DOMAIN data_item.fields THEN data_item.fields.key
    ELSE IF "num" \in DOMAIN data_item.fields THEN data_item.fields.num
    ELSE ItemKeys[n + 1]

C23_KeyNumOrPosition ==
    (IsGen /\ pc = "gen_item") =>
        \A j \in 1..Len(acc) : acc[j].key = IdentifyingKey(data_config[j], j - 1)

\* C24: the name of a generated file is {language}_{base}.json whether or not
\* the base name given ends in .json, and naming the translation of a
\* generated file, whatever language it was generated in, gives the name the
\* generator gives the target locale's file.
C24_FilenameRoundTrip ==
    /\ call.stage \in {"output", "target"} =>
          /\ call.output_filename
                = get_output_filename(call.language_code, call.base_filename \o <<".json">>)
                \/ call.base_filename[Len(call.base_filename)] = ".json"
          /\ call.output_filename[1] = call.language_code
          /\ call.output_filename[Len(call.output_filename)] = ".json"
    /\ call.stage = "target" =>
          call.target_filename = get_output_filename(call.target_locale, call.base_filename)

\* C25: requests are issued one after the other, in the order of the
\* languages (locales) and, within one, of the records, each after the one
\* before it has returned or failed; the entries of a written file are in the
\* order of the source records; and no request of a language (locale) is
\* issued before the file of every language (locale) begun before it is
\* written.
Logged(kinds) == {k \in LogIdx : log[k].ev \in kinds}

Before(a, b) ==
    \/ log[a].li < log[b].li
    \/ log[a].li = log[b].li /\ log[a].i < log[b].i

C25_StrictlySequential ==
    /\ LET requests == Logged({"request"})
           begun == Logged({"open", "begin"})
           written == Logged({"write"})
       IN  /\ \A a \in requests, b \in requests : a < b => Before(a, b)
           /\ \A k \in requests, a \in begun :
                 log[a].li < log[k].li
                 => \E w \in written : a < w /\ w < k /\ log[w].li = log[a].li
    /\ \A k \in LogIdx :
          log[k].ev = "write" =>
             LET data == files[WrittenPathAt(log[k].li)].data
             IN  IF IsGen
                 THEN /\ Len(data) = Len(data_config)
                      /\ \A j \in 1..Len(data) :
                            /\ "key" \in DOMAIN data_config[j].fields =>
                                  data[j].key = data_config[j].fields.key
                            /\ \E r \in LogIdx :
                                  /\ log[r].ev = "request" /\ log[r].li = log[k].li
                                  /\ log[r].i = j - 1
                                  /\ data[j].content = Expected(log[r].out)
                 ELSE /\ Len(data) = Len(files[SourcePath].data)
                      /\ \A j \in 1..Len(data) :
                            "key" \in DOMAIN files[SourcePath].data[j] =>
                               data[j].key = files[SourcePath].data[j].key

C25_Witness ==
    /\ IsGen /\ ~run.debug_mode /\ pc = "done" /\ status = "returned"
    /\ Len(data_config) = MaxRecords
    /\ \E a \in LogIdx, b \in LogIdx :
          /\ log[a].ev = "write" /\ log[b].ev = "write" /\ log[a].li < log[b].li
          /\ files[GenPathAt(log[b].li)].data[1].key = "aries"
          /\ files[GenPathAt(log[b].li)].data[2].key = "taurus"
          /\ \A r \in LogIdx : log[r].ev = "request" => log[r].out.ok

\* C26: load_data_config returns a JSON array as it is; of a JSON object it
\* returns the value under planets, houses or data when the object has one of
\* these, and otherwise its first array-valued field; an object without an
\* array-valued field, and any other JSON value, is a format error.
KnownKeys == {"planets", "houses", "data"}

C26_KnownKeysFirst ==
    call.stage = "loaded" =>
        LET doc == call.doc
            names == {doc.fields[n].k : n \in 1..Len(doc.fields)}
            lists == {n \in 1..Len(doc.fields) : doc.fields[n].v.type = "list"}
        IN  CASE doc.kind = "list" ->
                    call.result.ok /\ call.result.value.text = doc.items
              [] doc.kind = "dict" /\ names \cap KnownKeys # {} ->
                    /\ call.result.ok
                    /\ \E n \in 1..Len(doc.fields) :
                          doc.fields[n].k \in KnownKeys /\ call.result.value = doc.fields[n].v
              [] doc.kind = "dict" /\ names \cap KnownKeys = {} /\ lists # {} ->
                    /\ call.result.ok
                    /\ \E n \in lists :
                          /\ call.result.value = doc.fields[n].v
                          /\ \A m \in lists : n <= m
              [] OTHER ->
                    ~call.result.ok /\ call.result.error.type \in {"ValueError", "FileNotFoundError"}

\* C27: every invocation of generate_data and of translate_file that is
\* running eventually has returned or raised, given that the driver is resumed
\* whenever it can go on and every request is answered.
C27_Termination ==
    (status = "running" /\ pc # "done")
        ~> (/\ pc = "done"
            /\ \/ status = "raised"
               \/ /\ status = "returned"
                  /\ IsGen => li = Len(Languages) + 1
                  /\ IsTr => li = Len(SupportOrder) + 1)

C27_Witness ==
    /\ IsGen /\ pc = "done" /\ status = "returned"
    /\ li = Len(Languages) + 1 /\ Len(Languages) = 2
    /\ \E k \in LogIdx : log[k].ev = "skip"
    /\ \E k \in LogIdx : log[k].ev = "write"

\* C28: a request made on a client whose session is not open, before the
\* block is entered or after it is left, is rejected by the client's own
\* guard: it raises the usage error, builds no payload and posts nothing.
UsageError == <<"Client must be used as async context manager">>

C28_GuardOutsideScope ==
    [][(/\ client.session \in {"none", "closed"}
        /\ client'.session = client.session
        /\ client' # client)
          => /\ client'.raised = "RuntimeError"
             /\ client'.out.msg = UsageError
             /\ client'.payload = client.payload
             /\ client'.response = NoResponse]_vars

\* C29: no partial files. In every reachable state, also after a run that a
\* fatal error aborted in the middle of a language or locale, every file a
\* driver has written holds one data entry per source record; the language or
\* locale that was interrupted has no file; and no step removes or changes a
\* file that is already in the storage.
WrittenFiles ==
    IF HoldsSource
    THEN DOMAIN files \ {PathJoin(DataDir, SourceName)}
    ELSE {p \in DOMAIN files : files[p] # OldFile}

SourceRecords ==
    IF HoldsSource
    THEN Len(files[PathJoin(DataDir, SourceName)].data)
    ELSE Len(data_config)

Interrupted ==
    /\ status = "raised"
    /\ \E k \in LogIdx : log[k].li = li /\ log[k].ev \in {"begin", "open"}

C29_NoPartialFiles ==
    /\ [](\A p \in WrittenFiles :
            /\ Len(files[p].data) = SourceRecords
            /\ files[p].total_items = SourceRecords \/ HoldsSource)
    /\ [](Interrupted => WrittenPathAt(li) \notin DOMAIN files)
    /\ [][\A p \in DOMAIN files : p \in DOMAIN files' /\ files'[p] = files[p]]_vars

C29_Witness ==
    /\ IsTr /\ Interrupted /\ SupportOrder[li] = "fra" /\ i = 1
    /\ Len(source_data.data) = MaxRecords
    /\ \E k \in LogIdx : log[k].ev = "write" /\ SupportOrder[log[k].li] = "spa"
    /\ Len(files[TargetPathAt(2)].data) = MaxRecords
    /\ TargetPathAt(li) \notin DOMAIN files

\* C30: every record of a file the Translation Driver has written holds either
\* the content of its source record, verbatim, or a JSON object whose title,
\* one_liner and body_md are all there and not empty; so every such file
\* passes validate_source_file itself.
TheSourcePath == PathJoin(DataDir, SourceName)

TranslatedFiles == DOMAIN files \ {TheSourcePath}

CompleteObject(text) ==
    /\ IsJson(text)
    /\ Loads(text).kind = "obj"
    /\ \A f \in RequiredFields :
          /\ f \in DOMAIN Loads(text).obj
          /\ Loads(text).obj[f] # NullVal
          /\ StripStr(Loads(text).obj[f]) # ""

C30_TranslationClosure ==
    \A p \in TranslatedFiles :
        /\ "data" \in DOMAIN files[p]
        /\ Len(files[p].data) = Len(files[TheSourcePath].data)
        /\ \A j \in 1..Len(files[p].data) :
              /\ "content" \in DOMAIN files[p].data[j]
              /\ \/ files[p].data[j].content = files[TheSourcePath].data[j].content
                 \/ CompleteObject(files[p].data[j].content)
        /\ validate_source_file(files[p]) = "ok"

C30_Witness ==
    /\ IsTr /\ pc = "done" /\ status = "returned"
    /\ \E p \in TranslatedFiles :
          /\ files[p].language = "spa"
          /\ Len(files[p].data) = 2
          /\ files[p].data[1].content = files[TheSourcePath].data[1].content
          /\ files[p].data[2].content # files[TheSourcePath].data[2].content
          /\ Loads(files[p].data[2].content).obj["one_liner"] = "Spanish"
          /\ validate_source_file(files[p]) = "ok"

\* C31: translate_file never writes to a path where a file was when the
\* locale was reached: the one path a step of it writes is the target of the
\* current locale, which held no file, and every file there was stays as it
\* was. The source file in particular stays what was loaded from it, also
\* when its own locale is among the supported ones and the target filename is
\* the source filename.
C31_ExistingNeverWritten ==
    /\ [][(IsTr /\ files' # files)
            => /\ TargetPath \notin DOMAIN files
               /\ DOMAIN files' = DOMAIN files \cup {TargetPath}
               /\ \A p \in DOMAIN files : files'[p] = files[p]]_vars
    /\ []((IsTr /\ source_data # NoSource)
            => SourcePath \in DOMAIN files /\ files[SourcePath] = source_data)

C31_Witness ==
    /\ IsTr /\ ~run.debug_mode /\ status = "returned"
    /\ TargetPathAt(1) = SourcePath
    /\ files[SourcePath] = source_data
    /\ \E k \in LogIdx : log[k].ev = "skip" /\ SupportOrder[log[k].li] = "eng"
    /\ \E k \in LogIdx : log[k].ev = "write" /\ SupportOrder[log[k].li] = "spa"
    /\ \E k \in LogIdx : log[k].ev = "write" /\ SupportOrder[log[k].li] = "fra"

\* C32: error markers are permanent under resumption. In normal mode the file
\* of a language is written with "Error: ..." as the content of every record
\* whose request failed; no later step changes a file that holds such a
\* content; and a later run that comes to the path of such a file skips the
\* language: it opens no session, requests no record and writes nothing for it.
IsErrorContent(text) ==
    /\ ~IsJson(text) /\ Len(text.tag) >= 1 /\ text.tag[1] = "Error: "

HasErrorMarker(file) ==
    \E j \in 1..Len(file.data) : IsErrorContent(file.data[j].content)

C32_ErrorMarkersPermanent ==
    /\ []((IsGen /\ ~run.debug_mode) =>
            \A w \in Logged({"write"}), r \in Logged({"request"}) :
                (log[r].li = log[w].li /\ ~log[r].out.ok)
                => LET entry == files[GenPathAt(log[w].li)].data[log[r].i + 1]
                   IN  /\ IsErrorContent(entry.content)
                       /\ entry.content = ErrorText(log[r].out.msg))
    /\ [][\A p \in DOMAIN files :
             HasErrorMarker(files[p]) => p \in DOMAIN files' /\ files'[p] = files[p]]_vars
    /\ [](IsGen =>
            \A pos \in 1..Len(Languages) :
                (/\ GenPathAt(pos) \in DOMAIN files
                 /\ HasErrorMarker(files[GenPathAt(pos)])
                 /\ files[GenPathAt(pos)].generated_at < now)
                => /\ \A k \in LogIdx : log[k].li = pos => log[k].ev = "skip"
                   /\ (li > pos /\ run.loaded) =>
                         \E k \in LogIdx : log[k].li = pos /\ log[k].ev = "skip")

C32_Witness ==
    /\ IsGen /\ ~run.debug_mode /\ now = 2 /\ pc = "done" /\ status = "returned"
    /\ \E p \in prior : SameArguments(p)
    /\ \E k \in LogIdx :
          /\ log[k].ev = "skip"
          /\ files[GenPathAt(log[k].li)].generated_at = 1
          /\ HasErrorMarker(files[GenPathAt(log[k].li)])
    /\ \A k \in LogIdx : log[k].ev # "request"

====
